---- MODULE Spec2Model ----
(***************************************************************************)
(* Model of frispy/equations_of_motion.py: class EOM, the right-hand side  *)
(* of the flying-disc equations of motion.                                 *)
(*                                                                         *)
(* Numbers.  A float is modelled as an extended rational <<n, d>>:         *)
(*   d > 0   the rational n/d in lowest terms,                             *)
(*   d = 0   an IEEE special value: <<0,0>> is NaN, <<1,0>> is +inf and    *)
(*           <<-1,0>> is -inf.                                             *)
(* Arithmetic is exact on the finite values and follows IEEE 754 on the    *)
(* special ones (x/0, inf-inf, 0*inf, NaN propagation), which is what      *)
(* numpy does under its default error state (a RuntimeWarning, never an    *)
(* exception).  Rounding, overflow to inf and the sign of zero are not     *)
(* modelled.  Square roots are exact: the inputs are restricted to those   *)
(* on which every norm taken by the code is rational (see Representable).  *)
(***************************************************************************)
EXTENDS Integers, Sequences, FiniteSets, TLC

\* ------------------------------------------------------------------------
\* Extended rationals
\* ------------------------------------------------------------------------
Abs(i) == IF i < 0 THEN -i ELSE i

Sign(i) == IF i < 0 THEN -1 ELSE IF i > 0 THEN 1 ELSE 0

RECURSIVE Gcd(_, _)
Gcd(a, b) == IF b = 0 THEN a ELSE Gcd(b, a % b)

\* n/d in lowest terms with a positive denominator (d # 0)
Rat(n, d) ==
    LET g == Gcd(Abs(n), Abs(d))
    IN  IF d < 0 THEN << (-n) \div g, (-d) \div g >> ELSE << n \div g, d \div g >>

NaN == << 0, 0 >>
Inf(s) == << s, 0 >>
Zero == << 0, 1 >>
One == << 1, 1 >>
Half == << 1, 2 >>
Two == << 2, 1 >>

IsNaN(a) == a = NaN
IsInf(a) == a[2] = 0 /\ a[1] # 0
IsFinite(a) == a[2] # 0
IsZero(a) == a[2] # 0 /\ a[1] = 0

RNeg(a) == << -a[1], a[2] >>

RAdd(a, b) ==
    IF IsNaN(a) \/ IsNaN(b) THEN NaN
    ELSE IF IsInf(a) /\ IsInf(b) THEN (IF a[1] = b[1] THEN a ELSE NaN)
    ELSE IF IsInf(a) THEN a
    ELSE IF IsInf(b) THEN b
    ELSE LET g == Gcd(a[2], b[2])
         IN  Rat(a[1] * (b[2] \div g) + b[1] * (a[2] \div g), a[2] * (b[2] \div g))

RSub(a, b) == RAdd(a, RNeg(b))

RMul(a, b) ==
    IF IsNaN(a) \/ IsNaN(b) THEN NaN
    ELSE IF IsInf(a) \/ IsInf(b)
         THEN (IF IsZero(a) \/ IsZero(b) THEN NaN ELSE Inf(Sign(a[1]) * Sign(b[1])))
    ELSE LET g == Gcd(Abs(a[1]), b[2])
             h == Gcd(Abs(b[1]), a[2])
         IN  Rat((a[1] \div g) * (b[1] \div h), (a[2] \div h) * (b[2] \div g))

\* IEEE division: x/0 is +-inf for x # 0 and NaN for x = 0; no exception
RDiv(a, b) ==
    IF IsNaN(a) \/ IsNaN(b) THEN NaN
    ELSE IF IsInf(b) THEN (IF IsInf(a) THEN NaN ELSE Zero)
    ELSE IF IsZero(b) THEN (IF IsZero(a) THEN NaN ELSE Inf(Sign(a[1])))
    ELSE IF IsInf(a) THEN Inf(Sign(a[1]) * Sign(b[1]))
    ELSE RMul(a, Rat(b[2], b[1]))

\* a <= b on finite values
RLeq(a, b) == a[1] * b[2] <= b[1] * a[2]

RAbs(a) == << Abs(a[1]), a[2] >>

RECURSIVE ISqrtBetween(_, _, _)
ISqrtBetween(n, lo, hi) ==
    IF lo >= hi THEN lo
    ELSE LET mid == (lo + hi + 1) \div 2
         IN  IF mid * mid <= n THEN ISqrtBetween(n, mid, hi)
             ELSE ISqrtBetween(n, lo, mid - 1)

\* floor of the square root of a natural number
ISqrt(n) == ISqrtBetween(n, 0, IF n < 46340 THEN n ELSE 46340)

IsSquare(n) == n >= 0 /\ ISqrt(n) * ISqrt(n) = n

\* the extended rational has an extended-rational square root
HasRoot(a) == IsFinite(a) => (a[1] < 0 \/ (IsSquare(a[1]) /\ IsSquare(a[2])))

\* sqrt: NaN for NaN and negative arguments, +inf for +inf, exact otherwise
RSqrt(a) ==
    IF IsNaN(a) THEN NaN
    ELSE IF IsInf(a) THEN (IF a[1] > 0 THEN a ELSE NaN)
    ELSE IF a[1] < 0 THEN NaN
    ELSE << CHOOSE k \in {ISqrt(a[1])} : k * k = a[1],
            CHOOSE k \in {ISqrt(a[2])} : k * k = a[2] >>

\* ------------------------------------------------------------------------
\* Vectors (tuples of extended rationals)
\* ------------------------------------------------------------------------
VAdd(u, v) == [i \in DOMAIN u |-> RAdd(u[i], v[i])]
VSub(u, v) == [i \in DOMAIN u |-> RSub(u[i], v[i])]
VScale(c, u) == [i \in DOMAIN u |-> RMul(c, u[i])]
VDivS(u, c) == [i \in DOMAIN u |-> RDiv(u[i], c)]
VNeg(u) == [i \in DOMAIN u |-> RNeg(u[i])]

Dot3(u, v) == RAdd(RAdd(RMul(u[1], v[1]), RMul(u[2], v[2])), RMul(u[3], v[3]))

Dot4(p, q) == RAdd(Dot3(p, q), RMul(p[4], q[4]))

Cross(u, v) ==
    << RSub(RMul(u[2], v[3]), RMul(u[3], v[2])),
       RSub(RMul(u[3], v[1]), RMul(u[1], v[3])),
       RSub(RMul(u[1], v[2]), RMul(u[2], v[1])) >>

Norm3(u) == RSqrt(Dot3(u, u))

Norm4(q) == RSqrt(Dot4(q, q))

MatVec(R, u) == << Dot3(R[1], u), Dot3(R[2], u), Dot3(R[3], u) >>

VFinite(u) == \A i \in DOMAIN u : IsFinite(u[i])

ZeroVec3 == << Zero, Zero, Zero >>

\* ------------------------------------------------------------------------
\* scipy.spatial.transform.Rotation, as far as the code uses it.
\* A rotation is held as a scalar-last quaternion <<x, y, z, w>>.
\* ------------------------------------------------------------------------
ZeroNormError == "ValueError: Found zero norm quaternions in quat."

\* Rotation.from_quat normalises its argument and raises ValueError on a
\* zero norm.  A norm that is NaN is rejected with the same ValueError by
\* the builds that test the normalised norm with isnan and is let through
\* by the others: nanRaises says which build runs.
\* Result: [ok |-> the call returned, quat |-> the stored unit quaternion]
FromQuat(q, nanRaises) ==
    LET norm == Norm4(q)
    IN  IF IsZero(norm) \/ (nanRaises /\ IsNaN(norm))
        THEN [ok |-> FALSE, quat |-> q]
        ELSE [ok |-> TRUE, quat |-> VDivS(q, norm)]

\* Hamilton product p (x) q of scalar-last quaternions
ComposeQuat(p, q) ==
    LET pv == << p[1], p[2], p[3] >>
        qv == << q[1], q[2], q[3] >>
        xyz == VAdd(VAdd(VScale(p[4], qv), VScale(q[4], pv)), Cross(pv, qv))
    IN  << xyz[1], xyz[2], xyz[3], RSub(RMul(p[4], q[4]), Dot3(pv, qv)) >>

\* Rotation.__mul__: p * q is the product p (x) q, normalised again
Compose(p, q, nanRaises) == FromQuat(ComposeQuat(p, q), nanRaises)

\* Rotation.as_quat
AsQuat(q) == q

\* Rotation.as_matrix of a stored quaternion
AsMatrix(q) ==
    LET x2 == RMul(q[1], q[1])
        y2 == RMul(q[2], q[2])
        z2 == RMul(q[3], q[3])
        w2 == RMul(q[4], q[4])
        xy == RMul(q[1], q[2])
        zw == RMul(q[3], q[4])
        xz == RMul(q[1], q[3])
        yw == RMul(q[2], q[4])
        yz == RMul(q[2], q[3])
        xw == RMul(q[1], q[4])
    IN  << << RAdd(RSub(RSub(x2, y2), z2), w2), RMul(Two, RSub(xy, zw)), RMul(Two, RAdd(xz, yw)) >>,
           << RMul(Two, RAdd(xy, zw)), RAdd(RSub(RSub(y2, x2), z2), w2), RMul(Two, RSub(yz, xw)) >>,
           << RMul(Two, RSub(xz, yw)), RMul(Two, RAdd(yz, xw)), RAdd(RSub(RSub(z2, x2), y2), w2) >> >>

\* ------------------------------------------------------------------------
\* math.isclose(a, b) with the default rel_tol = 1e-09 and abs_tol = 0.0:
\*   abs(a - b) <= max(rel_tol * max(abs(a), abs(b)), abs_tol)
\* and False when either argument is NaN or only one is infinite.
\* ------------------------------------------------------------------------
RelTolDen == 1000000000

RMax(a, b) == IF RLeq(a, b) THEN b ELSE a

IsClose(a, b) ==
    IF IsNaN(a) \/ IsNaN(b) THEN FALSE
    ELSE IF IsInf(a) \/ IsInf(b) THEN a = b
    ELSE LET diff == RAbs(RSub(a, b))
             big == RMax(RAbs(a), RAbs(b))
         \* diff <= big / RelTolDen, without forming the product with 10^9
         IN  diff[1] * big[2] <= (big[1] * diff[2]) \div RelTolDen

\* ------------------------------------------------------------------------
\* frispy.environment.Environment and frispy.model.Model: the two
\* collaborators the EOM instance holds.  The aerodynamic coefficients are
\* opaque functions of the angle of attack; they are modelled as affine in
\* the stored angle value (see calculate_intermediate_quantities), with the
\* two parameters of each taken from the Model record.
\* ------------------------------------------------------------------------
C_lift(m, aoa) == RAdd(m.PL0, RMul(m.PLa, aoa))

C_drag(m, aoa) == RAdd(m.PD0, RMul(m.PDa, aoa))

C_side(m, aoa, v_norm, wz) == RAdd(m.PS0, RMul(m.PSa, aoa))

C_x(m, aoa, v_norm, wz) == RAdd(m.PTx0, RMul(m.PTxa, aoa))

C_y(m, aoa) == RAdd(m.PTy0, RMul(m.PTya, aoa))

\* ------------------------------------------------------------------------
\* The intermediate mapping.  Each entry carries its value and a mark
\* cur: TRUE while the evaluation that wrote it is running, FALSE once
\* that evaluation has returned or raised.
\* ------------------------------------------------------------------------
Entry(v) == [val |-> v, cur |-> TRUE]

Put(res, key, v) == [k \in DOMAIN res \cup {key} |-> IF k = key THEN Entry(v) ELSE res[k]]

Expire(res) == [k \in DOMAIN res |-> [res[k] EXCEPT !.cur = FALSE]]

\* ------------------------------------------------------------------------
\* calculate_intermediate_quantities with the projection on the normal left
\* unscaled: v_in_plane = velocity - zhat
\* ------------------------------------------------------------------------
intermediate_quantities_unscaled(rotation, velocity, ang_velocity) ==
    LET R == AsMatrix(rotation)
        zhat == MatVec(R, << Zero, Zero, One >>)
        v_dot_zhat == Dot3(velocity, zhat)
        v_in_plane == VSub(velocity, zhat)
        sq == Dot3(v_in_plane, v_in_plane)
        norm == IF HasRoot(sq) THEN RSqrt(sq) ELSE One
        xhat == VDivS(v_in_plane, norm)
        yhat == Cross(zhat, xhat)
        w == MatVec(R, << ang_velocity[1], ang_velocity[2], Zero >>)
    IN  [k \in {"unit_vectors", "angle_of_attack", "w"} |->
            Entry(CASE k = "unit_vectors" -> [xhat |-> xhat, yhat |-> yhat, zhat |-> zhat]
                    [] k = "angle_of_attack" -> RNeg(RDiv(v_dot_zhat, norm))
                    [] k = "w" -> w)]

\* ------------------------------------------------------------------------
\* EOM.calculate_intermediate_quantities
\* The angle of attack -arctan(t) is stored by its tangent -t: arctan is an
\* increasing bijection of the extended reals onto [-pi/2, pi/2] that maps
\* NaN to NaN, so the stored value -t stands for the angle -arctan(t)
\* (+-inf for -+pi/2).
\* ------------------------------------------------------------------------
calculate_intermediate_quantities(rotation, velocity, ang_velocity) ==
    LET R == AsMatrix(rotation)
        zhat == MatVec(R, << Zero, Zero, One >>)
        v_dot_zhat == Dot3(velocity, zhat)
        v_in_plane == VSub(velocity, VScale(v_dot_zhat, zhat))
        xhat == VDivS(v_in_plane, Norm3(v_in_plane))
        yhat == Cross(zhat, xhat)
        angle_of_attack == RNeg(RDiv(v_dot_zhat, Norm3(v_in_plane)))
        w == MatVec(R, << ang_velocity[1], ang_velocity[2], Zero >>)
    IN  [k \in {"unit_vectors", "angle_of_attack", "w"} |->
            Entry(CASE k = "unit_vectors" -> [xhat |-> xhat, yhat |-> yhat, zhat |-> zhat]
                    [] k = "angle_of_attack" -> angle_of_attack
                    [] k = "w" -> w)]

\* EOM.compute_forces after its call of calculate_intermediate_quantities
compute_forces(env, m, velocity, ang_velocity, res) ==
    LET aoa == res["angle_of_attack"].val
        v_norm == Norm3(velocity)
        vhat == VDivS(velocity, v_norm)
        force_amplitude == RMul(RMul(RMul(Half, env.air_density), Dot3(velocity, velocity)), m.area)
        yhat == res["unit_vectors"].val.yhat
        F_lift == VScale(RMul(C_lift(m, aoa), force_amplitude), Cross(vhat, yhat))
        F_side == VScale(RMul(C_side(m, aoa, v_norm, ang_velocity[3]), force_amplitude), yhat)
        F_drag == VScale(RMul(C_drag(m, aoa), force_amplitude), VNeg(vhat))
        F_grav == VScale(RMul(m.mass, env.g), env.grav_vector)
        F_total == VAdd(VAdd(VAdd(F_lift, F_drag), F_grav), F_side)
        Acc == VDivS(F_total, m.mass)
    IN  Put(Put(Put(Put(Put(Put(res, "F_lift", F_lift), "F_side", F_side), "F_drag", F_drag),
                    "F_grav", F_grav), "F_total", F_total), "Acc", Acc)

\* EOM.compute_torques, line 87: the torque amplitude
torque_amplitude(env, m, velocity) ==
    RMul(RMul(RMul(RMul(Half, env.air_density), Dot3(velocity, velocity)), m.diameter), m.area)

\* EOM.compute_torques, lines 95-106: the precession rate
\* (roll + pitch_up) / (i_zz * wz)
precession_rate(m, velocity, ang_velocity, res) ==
    LET aoa == res["angle_of_attack"].val
        torque == res["torque_amplitude"].val
        i_zz == m.I_zz
        wz == ang_velocity[3]
        v_norm == Norm3(velocity)
        roll == VScale(RMul(C_y(m, aoa), torque), res["unit_vectors"].val.xhat)
        pitch_up == VScale(RMul(C_x(m, aoa, v_norm, wz), torque), res["unit_vectors"].val.yhat)
    IN  VDivS(VAdd(roll, pitch_up), RMul(i_zz, wz))

\* the orientation-rate operator with the factors of the product exchanged:
\* rotation * Rotation.from_quat([w[0], w[1], w[2], 0])
rate_operator_exchanged(w, w_norm, rotation, nanRaises) ==
    IF IsClose(Zero, w_norm)
    THEN FromQuat(<< Zero, Zero, Zero, One >>, nanRaises)
    ELSE LET wq == FromQuat(<< w[1], w[2], w[3], Zero >>, nanRaises)
         IN  IF wq.ok THEN Compose(rotation, wq.quat, nanRaises) ELSE wq

\* EOM.compute_torques, lines 110-114: the orientation-rate operator
\* Result: [ok |-> no exception, quat |-> wquat]
rate_operator(w, w_norm, rotation, nanRaises) ==
    IF IsClose(Zero, w_norm)
    THEN FromQuat(<< Zero, Zero, Zero, One >>, nanRaises)
    ELSE LET wq == FromQuat(<< w[1], w[2], w[3], Zero >>, nanRaises)
         IN  IF wq.ok THEN Compose(wq.quat, rotation, nanRaises) ELSE wq

\* the angular acceleration with the precession term turning the other way:
\* np.array([wy, -wx, 0])
wobble_precession_reversed(m, ang_velocity, torque) ==
    LET wx == ang_velocity[1]
        wy == ang_velocity[2]
        wz == ang_velocity[3]
        acc == VScale(torque, << RDiv(RMul(wx, m.dampening_factor), m.I_xx),
                                 RDiv(RMul(wy, m.dampening_factor), m.I_xx),
                                 RDiv(RMul(wz, m.dampening_z), m.I_zz) >>)
    IN  VAdd(acc, VScale(RMul(RMul(RDiv(RSub(m.I_zz, m.I_xx), m.I_xx), Two), wz),
                         << wy, RNeg(wx), Zero >>))

\* EOM.compute_wobble_precession: the angular acceleration T
wobble_precession(m, ang_velocity, torque) ==
    LET i_xx == m.I_xx
        i_zz == m.I_zz
        wx == ang_velocity[1]
        wy == ang_velocity[2]
        wz == ang_velocity[3]
        dampening == m.dampening_factor
        dampening_z == m.dampening_z
        acc == VScale(torque, << RDiv(RMul(wx, dampening), i_xx),
                                 RDiv(RMul(wy, dampening), i_xx),
                                 RDiv(RMul(wz, dampening_z), i_zz) >>)
        delta_moment == RSub(m.I_zz, m.I_xx)
    IN  VAdd(acc, VScale(RMul(RMul(RDiv(delta_moment, i_xx), Two), wz), << RNeg(wy), wx, Zero >>))

\* EOM.compute_torques, line 117
quaternion_rate(wquat, w_norm) == VDivS(VScale(w_norm, AsQuat(wquat)), Two)

\* repack with the angular acceleration and the quaternion derivative in each
\* other's places
repack_misplaced(velocity, res) ==
    << velocity[1], velocity[2], velocity[3],
       res["Acc"].val[1], res["Acc"].val[2], res["Acc"].val[3],
       res["T"].val[1], res["T"].val[2], res["T"].val[3],
       res["dq"].val[1], res["dq"].val[2], res["dq"].val[3], res["dq"].val[4] >>

\* EOM.compute_derivatives, lines 169-186: the derivative vector
repack(velocity, res) ==
    << velocity[1], velocity[2], velocity[3],
       res["Acc"].val[1], res["Acc"].val[2], res["Acc"].val[3],
       res["dq"].val[1], res["dq"].val[2], res["dq"].val[3], res["dq"].val[4],
       res["T"].val[1], res["T"].val[2], res["T"].val[3] >>

\* a mapping kept from one evaluation to the next and filled only where it
\* has no entry yet
bind_result_kept(previous, returned) == previous @@ returned

\* EOM.compute_forces, line 46: the name res is bound to the mapping that
\* calculate_intermediate_quantities has just built (lines 221-225), a new
\* dictionary; whatever an earlier evaluation left behind is not part of it
bind_result(previous, returned) == returned

\* the sum formed in place in the array the mapping holds:
\* w = res["w"]; w += (roll + pitch_up) / (i_zz * wz)
accumulate_w_aliased(res, precession) ==
    [w |-> VAdd(precession, res["w"].val),
     res |-> [res EXCEPT !["w"].val = VAdd(precession, res["w"].val)]]

\* EOM.compute_torques, lines 105-107: wobble = res["w"] names the array held
\* by the mapping, w is a new array, and w += wobble adds in place into the
\* new array.  Result: the local w and the mapping after the three lines.
accumulate_w(res, precession) ==
    [w |-> VAdd(precession, res["w"].val), res |-> res]

\* ------------------------------------------------------------------------
\* Inputs
\* ------------------------------------------------------------------------
Q(n) == << n, 1 >>

V3(a, b, c) == << Q(a), Q(b), Q(c) >>

\* largest time argument a call is made with
MaxTime == 1

Times == 0 .. MaxTime

Velocities == { V3(1, 0, 0), V3(3, 4, 0), V3(0, 0, 2), V3(0, 0, 0), V3(4, 0, -3) }

Identity == << Zero, Zero, Zero, One >>

\* a unit quaternion that tilts the disc normal to (4/5, 0, 3/5)
Tilted == << Rat(1, 5), Rat(2, 5), Rat(2, 5), Rat(4, 5) >>

\* a unit quaternion whose rotation permutes the axes
Permuting == << Half, Half, Half, Half >>

\* a quaternion of norm 2
NotUnit == << Zero, Zero, Zero, Two >>

Quaternions == { Identity, Tilted, NotUnit }

\* (dphi, dtheta, dgamma): pure spin, wobble with spin, wobble without spin
AngularVelocities == { V3(0, 0, 5), V3(3, 4, 5), V3(3, 4, 0) }

\* a wobble of 1/1000 rad/s on a spinning disc
SlowWobble == << Rat(1, 1000), Zero, Q(5) >>

Down == V3(0, 0, -1)

\* no aerodynamic coefficient, no damping, no gravity
ZeroConfig ==
    [ environment |-> [air_density |-> One, g |-> Zero, grav_vector |-> Down],
      model |-> [mass |-> One, area |-> Half, diameter |-> Half, I_xx |-> One, I_zz |-> Two,
                 dampening_factor |-> Zero, dampening_z |-> Zero,
                 PL0 |-> Zero, PLa |-> Zero, PD0 |-> Zero, PDa |-> Zero, PS0 |-> Zero, PSa |-> Zero,
                 PTx0 |-> Zero, PTxa |-> Zero, PTy0 |-> Zero, PTya |-> Zero] ]

GeneralConfig ==
    [ environment |-> [air_density |-> Two, g |-> Q(10), grav_vector |-> Down],
      model |-> [mass |-> Two, area |-> Half, diameter |-> Half, I_xx |-> One, I_zz |-> Two,
                 dampening_factor |-> Rat(-1, 2), dampening_z |-> Rat(-1, 4),
                 PL0 |-> Half, PLa |-> One, PD0 |-> Rat(1, 4), PDa |-> Zero, PS0 |-> Half, PSa |-> Zero,
                 PTx0 |-> Zero, PTxa |-> One, PTy0 |-> One, PTya |-> Zero] ]

Configs == { ZeroConfig, GeneralConfig }

\* states at the origin, states away from it, and slowly wobbling states
Coordinates ==
    { V3(0, 0, 0) \o v \o q \o a : v \in Velocities, q \in Quaternions, a \in AngularVelocities }
    \cup { V3(1, 2, 3) \o v \o q \o V3(3, 4, 5) :
             v \in { V3(3, 4, 0), V3(4, 0, -3) }, q \in { Identity, Tilted } }
    \cup { V3(0, 0, 0) \o v \o q \o SlowWobble : v \in Velocities, q \in { Identity, Permuting } }

Vel(s) == << s[4], s[5], s[6] >>
Quat(s) == << s[7], s[8], s[9], s[10] >>
AngVel(s) == << s[11], s[12], s[13] >>

\* the norm of u is rational (or is taken of a special value)
NormRepresentable(u) == HasRoot(Dot3(u, u))

\* the component of the velocity in the plane of the disc, lines 210-212
InPlaneVelocity(velocity, zhat) ==
    VSub(velocity, VScale(Dot3(velocity, zhat), zhat))

\* w of compute_torques, lines 87-107, from the mapping the resolver built
RateOf(c, s, res) ==
    accumulate_w(res, precession_rate(c.model, Vel(s), AngVel(s), res)).w

\* every square root the evaluation of s takes is rational (or is taken of
\* a special value): the norms of the quaternion, of the velocity, of the
\* in-plane velocity and of w
RepresentableFrom(c, s, rot) ==
    rot.ok =>
      /\ NormRepresentable(InPlaneVelocity(Vel(s),
                                           MatVec(AsMatrix(rot.quat), << Zero, Zero, One >>)))
      /\ NormRepresentable(
            RateOf(c, s, Put(calculate_intermediate_quantities(rot.quat, Vel(s), AngVel(s)),
                             "torque_amplitude",
                             torque_amplitude(c.environment, c.model, Vel(s)))))

Representable(c, s) ==
    /\ HasRoot(Dot4(Quat(s), Quat(s)))
    /\ NormRepresentable(Vel(s))
    /\ RepresentableFrom(c, s, FromQuat(Quat(s), FALSE))

Inputs == [c \in Configs |-> {s \in Coordinates : Representable(c, s)}]

\* ------------------------------------------------------------------------
\* compute_derivatives as one function of its collaborators and its state
\* argument: what a first call on a newly constructed EOM(c.environment,
\* c.model) gives its caller
\* ------------------------------------------------------------------------
NoOutcome == [kind |-> "none", value |-> << >>, error |-> ""]

Returned(v) == [kind |-> "returned", value |-> v, error |-> ""]

Raised(e) == [kind |-> "raised", value |-> << >>, error |-> e]

compute_derivatives(c, nanRaises, s) ==
    LET rot == FromQuat(Quat(s), nanRaises)
    IN  IF ~rot.ok THEN Raised(ZeroNormError)
        ELSE
          LET r0 == calculate_intermediate_quantities(rot.quat, Vel(s), AngVel(s))
              r1 == compute_forces(c.environment, c.model, Vel(s), AngVel(s), r0)
              r2 == Put(r1, "torque_amplitude", torque_amplitude(c.environment, c.model, Vel(s)))
              acc == accumulate_w(r2, precession_rate(c.model, Vel(s), AngVel(s), r2))
              wq == rate_operator(acc.w, Norm3(acc.w), rot.quat, nanRaises)
          IN  IF ~wq.ok THEN Raised(ZeroNormError)
              ELSE
                LET r3 == Put(acc.res, "T",
                              wobble_precession(c.model, AngVel(s), acc.res["torque_amplitude"].val))
                    r4 == Put(r3, "dq", quaternion_rate(wq.quat, Norm3(acc.w)))
                IN  Returned(repack(Vel(s), r4))

\* ------------------------------------------------------------------------
\* State
\* ------------------------------------------------------------------------
VARIABLES
    environment,    \* EOM._environment
    model,          \* EOM._model
    constructed,    \* the Environment and Model the instance was constructed with
    nanRaises,      \* the Rotation build rejects a NaN norm
    pc,             \* where the evaluation stands
    time,           \* argument of compute_derivatives
    coordinates,    \* argument of compute_derivatives
    velocity,       \* locals of compute_derivatives
    rotation,
    ang_velocity,
    res,            \* the intermediate mapping (result in compute_derivatives)
    w,              \* locals of compute_torques
    w_norm,
    wquat,
    outcome,        \* what the caller of compute_derivatives got
    reused          \* an evaluation has already completed on this instance

vars == << environment, model, constructed, nanRaises, pc, time, coordinates, velocity,
           rotation, ang_velocity, res, w, w_norm, wquat, outcome, reused >>

Unset == << >>

EmptyMapping == [k \in {} |-> Entry(Unset)]

\* EOM.__init__
Init ==
    /\ \E c \in Configs :
         /\ environment = c.environment
         /\ model = c.model
         /\ constructed = c
    /\ nanRaises \in BOOLEAN
    /\ pc = "idle"
    /\ time = 0
    /\ coordinates = Unset
    /\ velocity = Unset
    /\ rotation = Unset
    /\ ang_velocity = Unset
    /\ res = EmptyMapping
    /\ w = Unset
    /\ w_norm = Unset
    /\ wquat = Unset
    /\ outcome = NoOutcome
    /\ reused = FALSE

\* compute_derivatives(time, coordinates), lines 161-167, up to and
\* including the first statement of compute_forces (line 46), which calls
\* calculate_intermediate_quantities
Call ==
    /\ pc = "idle"
    /\ \E t \in Times, s \in Inputs[constructed] :
         LET rot == FromQuat(Quat(s), nanRaises)
         IN  /\ time' = t
             /\ coordinates' = s
             /\ IF rot.ok
                THEN /\ velocity' = Vel(s)
                     /\ rotation' = rot.quat
                     /\ ang_velocity' = AngVel(s)
                     /\ res' = bind_result(res,
                                  calculate_intermediate_quantities(rot.quat, Vel(s), AngVel(s)))
                     /\ pc' = "forces"
                     /\ outcome' = NoOutcome
                ELSE /\ UNCHANGED << velocity, rotation, ang_velocity >>
                     /\ res' = Expire(res)
                     /\ pc' = "done"
                     /\ outcome' = Raised(ZeroNormError)
    /\ UNCHANGED << environment, model, constructed, nanRaises, w, w_norm, wquat, reused >>

\* compute_forces, lines 47-76
ComputeForces ==
    /\ pc = "forces"
    /\ res' = compute_forces(environment, model, velocity, ang_velocity, res)
    /\ pc' = "torques"
    /\ UNCHANGED << environment, model, constructed, nanRaises, time, coordinates, velocity,
                    rotation, ang_velocity, w, w_norm, wquat, outcome, reused >>

\* compute_torques, lines 86-114; the ValueError of Rotation propagates to
\* the caller of compute_derivatives
ComputeTorques ==
    /\ pc = "torques"
    /\ LET res1 == Put(res, "torque_amplitude", torque_amplitude(environment, model, velocity))
           acc == accumulate_w(res1, precession_rate(model, velocity, ang_velocity, res1))
           wq == rate_operator(acc.w, Norm3(acc.w), rotation, nanRaises)
       IN  /\ w' = acc.w
           /\ w_norm' = Norm3(acc.w)
           /\ IF wq.ok
              THEN /\ wquat' = wq.quat
                   /\ res' = acc.res
                   /\ pc' = "wobble"
                   /\ outcome' = outcome
              ELSE /\ wquat' = wquat
                   /\ res' = Expire(acc.res)
                   /\ pc' = "done"
                   /\ outcome' = Raised(ZeroNormError)
    /\ UNCHANGED << environment, model, constructed, nanRaises, time, coordinates, velocity,
                    rotation, ang_velocity, reused >>

\* compute_torques, line 116: compute_wobble_precession, lines 125-138
ComputeWobblePrecession ==
    /\ pc = "wobble"
    /\ res' = Put(res, "T", wobble_precession(model, ang_velocity, res["torque_amplitude"].val))
    /\ pc' = "dq"
    /\ UNCHANGED << environment, model, constructed, nanRaises, time, coordinates, velocity,
                    rotation, ang_velocity, w, w_norm, wquat, outcome, reused >>

\* compute_torques, lines 117-118
SetDq ==
    /\ pc = "dq"
    /\ res' = Put(res, "dq", quaternion_rate(wquat, w_norm))
    /\ pc' = "repack"
    /\ UNCHANGED << environment, model, constructed, nanRaises, time, coordinates, velocity,
                    rotation, ang_velocity, w, w_norm, wquat, outcome, reused >>

\* compute_derivatives, lines 169-186
Repack ==
    /\ pc = "repack"
    /\ outcome' = Returned(repack(velocity, res))
    /\ res' = Expire(res)
    /\ pc' = "done"
    /\ UNCHANGED << environment, model, constructed, nanRaises, time, coordinates, velocity,
                    rotation, ang_velocity, w, w_norm, wquat, reused >>

\* the caller has the result or the exception; the frames of the call are
\* gone, the dictionary it built is garbage
Return ==
    /\ pc = "done"
    /\ pc' = "idle"
    /\ time' = 0
    /\ coordinates' = Unset
    /\ velocity' = Unset
    /\ rotation' = Unset
    /\ ang_velocity' = Unset
    /\ w' = Unset
    /\ w_norm' = Unset
    /\ wquat' = Unset
    /\ outcome' = NoOutcome
    /\ reused' = TRUE
    /\ UNCHANGED << environment, model, constructed, nanRaises, res >>

Next ==
    \/ Call
    \/ ComputeForces
    \/ ComputeTorques
    \/ ComputeWobblePrecession
    \/ SetDq
    \/ Repack
    \/ Return

Spec == Init /\ [][Next]_vars

\* ------------------------------------------------------------------------
\* Properties
\* ------------------------------------------------------------------------
Origin == V3(0, 0, 0)

AtOrigin(s) == Origin \o << s[4], s[5], s[6], s[7], s[8], s[9], s[10], s[11], s[12], s[13] >>

HasReturned == pc = "done" /\ outcome.kind = "returned"

Slice(d, from, to) == [i \in 1 .. (to - from + 1) |-> d[from + i - 1]]

\* C1: whenever compute_derivatives returns, the result has 13 components:
\* 1-3 the input velocity, 4-6 the total force divided by the mass, 7-10 the
\* quaternion derivative dq, 11-13 the angular acceleration T; and it is the
\* result for the same state moved to the origin (the position has no
\* influence).
C1_Layout ==
    HasReturned =>
        LET d == outcome.value
        IN  /\ Len(d) = 13
            /\ Slice(d, 1, 3) = << coordinates[4], coordinates[5], coordinates[6] >>
            /\ Slice(d, 4, 6) = VDivS(res["F_total"].val, model.mass)
            /\ Slice(d, 7, 10) = res["dq"].val
            /\ Slice(d, 11, 13) = res["T"].val
            /\ outcome = compute_derivatives(constructed, nanRaises, AtOrigin(coordinates))

\* a call away from the origin has returned finite, non-zero accelerations
C1_Witness ==
    /\ HasReturned
    /\ Slice(coordinates, 1, 3) # Origin
    /\ VFinite(outcome.value)
    /\ Slice(outcome.value, 4, 6) # ZeroVec3
    /\ Slice(outcome.value, 7, 10) # << Zero, Zero, Zero, Zero >>
    /\ Slice(outcome.value, 11, 13) # ZeroVec3

\* C2: what a call gives its caller is what a first call with the same state
\* on a newly constructed instance gives, whatever the time argument and
\* whatever calls came before: the evaluation starts from the mapping a
\* first call starts from and ends in the outcome a first call ends in; and
\* the instance still holds the Environment and the Model it was constructed
\* with, unchanged.
C2_Stateless ==
    /\ environment = constructed.environment
    /\ model = constructed.model
    /\ pc = "forces" =>
          res = calculate_intermediate_quantities(
                    FromQuat(Quat(coordinates), nanRaises).quat, Vel(coordinates), AngVel(coordinates))
    /\ pc = "done" => outcome = compute_derivatives(constructed, nanRaises, coordinates)

\* a call on an instance that has been called before has returned
C2_Witness == HasReturned /\ reused /\ time = 0 /\ VFinite(outcome.value)

\* the domain errors the specification names
ZeroSpinError == "domain error: zero spin"

DegenerateGeometryError == "domain error: degenerate geometry"

\* the disc normal and the in-plane velocity of a state argument
Normal(s) == MatVec(AsMatrix(FromQuat(Quat(s), FALSE).quat), << Zero, Zero, One >>)

InPlane(s) == VSub(Vel(s), VScale(Dot3(Vel(s), Normal(s)), Normal(s)))

ZeroSpin(s) == IsZero(s[13])

Degenerate(s) == InPlane(s) = ZeroVec3

\* C3: a call with zero spin rate dgamma ends in a zero-spin domain error and
\* returns no derivative vector.
C3_ZeroSpinSignalled ==
    (pc = "done" /\ ZeroSpin(coordinates)) =>
        (outcome.kind = "raised" /\ outcome.error = ZeroSpinError)

\* C4: a call whose velocity is zero or parallel to the disc normal ends in a
\* degenerate-geometry domain error and returns no derivative vector.
C4_DegenerateSignalled ==
    (pc = "done" /\ Degenerate(coordinates)) =>
        (outcome.kind = "raised" /\ outcome.error = DegenerateGeometryError)

\* a valid state: non-zero velocity, non-degenerate in-plane component,
\* non-zero spin
Valid(s) == Vel(s) # ZeroVec3 /\ ~Degenerate(s) /\ ~ZeroSpin(s)

\* all aerodynamic coefficients, both damping coefficients and g are zero
NoAerodynamics(env, m) ==
    /\ \A k \in {"PL0", "PLa", "PD0", "PDa", "PS0", "PSa", "PTx0", "PTxa", "PTy0", "PTya"} :
         m[k] = Zero
    /\ m.dampening_factor = Zero
    /\ m.dampening_z = Zero
    /\ env.g = Zero

\* 2 * wz * (I_zz - I_xx) / I_xx * (-wy, wx, 0)
Gyroscopic(m, av) ==
    VScale(RDiv(RMul(RMul(Two, av[3]), RSub(m.I_zz, m.I_xx)), m.I_xx), << RNeg(av[2]), av[1], Zero >>)

\* 0.5 * air_density * |v|^2 * diameter * area
DynamicTorqueScale(env, m, v) ==
    RMul(Half, RMul(env.air_density, RMul(Dot3(v, v), RMul(m.diameter, m.area))))

\* C5 as claimed: on a valid state with no aerodynamics, the total force is
\* zero, the torque amplitude is zero and T is the gyroscopic term alone.
C5_Original ==
    (HasReturned /\ Valid(coordinates) /\ NoAerodynamics(environment, model)) =>
        /\ res["F_total"].val = ZeroVec3
        /\ res["torque_amplitude"].val = Zero
        /\ res["T"].val = Gyroscopic(model, AngVel(coordinates))

\* C5 as amended: on a valid state with no aerodynamics, the total force is
\* zero, T is the gyroscopic term alone, and the torque amplitude is
\* 0.5 * air_density * |v|^2 * diameter * area, which the coefficients do
\* not enter.
C5_Conservation ==
    (HasReturned /\ Valid(coordinates) /\ NoAerodynamics(environment, model)) =>
        /\ res["F_total"].val = ZeroVec3
        /\ res["torque_amplitude"].val =
               DynamicTorqueScale(environment, model, Vel(coordinates))
        /\ res["T"].val = Gyroscopic(model, AngVel(coordinates))

\* a wobbling valid state was evaluated with no aerodynamics: T and the
\* torque amplitude are not zero
C5_Witness ==
    /\ HasReturned
    /\ Valid(coordinates)
    /\ NoAerodynamics(environment, model)
    /\ res["T"].val # ZeroVec3
    /\ res["torque_amplitude"].val # Zero

\* a rate below which an angular rate counts as indistinguishable from zero
Tolerance == Rat(1, 100)

ZeroRate == << Zero, Zero, Zero, Zero >>

\* C6: whenever the norm of the combined angular rate is within the
\* tolerance of zero, the identity rotation is the orientation-rate operator
\* and dq is the zero rate.
C6_ToleranceBranch ==
    (HasReturned /\ IsFinite(w_norm) /\ RLeq(w_norm, Tolerance)) =>
        (wquat = Identity /\ res["dq"].val = ZeroRate)

\* C7: whenever the in-plane velocity is not zero, the basis that
\* calculate_intermediate_quantities returns is orthonormal, yhat is
\* zhat x xhat, and xhat points along the in-plane part of the velocity.
C7_Orthonormal ==
    (pc = "forces" /\ ~Degenerate(coordinates)) =>
        LET xhat == res["unit_vectors"].val.xhat
            yhat == res["unit_vectors"].val.yhat
            zhat == res["unit_vectors"].val.zhat
            v_in_plane == VSub(velocity, VScale(Dot3(velocity, zhat), zhat))
        IN  /\ Dot3(xhat, xhat) = One
            /\ Dot3(yhat, yhat) = One
            /\ Dot3(zhat, zhat) = One
            /\ Dot3(xhat, yhat) = Zero
            /\ Dot3(yhat, zhat) = Zero
            /\ Dot3(zhat, xhat) = Zero
            /\ yhat = << RSub(RMul(zhat[2], xhat[3]), RMul(zhat[3], xhat[2])),
                         RSub(RMul(zhat[3], xhat[1]), RMul(zhat[1], xhat[3])),
                         RSub(RMul(zhat[1], xhat[2]), RMul(zhat[2], xhat[1])) >>
            /\ v_in_plane # ZeroVec3
            /\ VScale(Norm3(v_in_plane), xhat) = v_in_plane

\* the basis of a tilted disc that does not fly in its own plane, from a
\* quaternion that is not a unit quaternion or not the identity
C7_Witness ==
    /\ pc = "forces"
    /\ ~Degenerate(coordinates)
    /\ res["angle_of_attack"].val # Zero
    /\ \A i \in 1 .. 3 : res["unit_vectors"].val.yhat[i] # Zero \/ res["unit_vectors"].val.zhat[i] # Zero
    /\ Quat(coordinates) = Tilted

KeysResolver == {"unit_vectors", "angle_of_attack", "w"}

KeysForces == {"F_lift", "F_side", "F_drag", "F_grav", "F_total", "Acc"}

\* the entries the steps before the one at pc have written
WrittenBefore(at) ==
    CASE at = "forces" -> KeysResolver
      [] at = "torques" -> KeysResolver \cup KeysForces
      [] at = "wobble" -> KeysResolver \cup KeysForces \cup {"torque_amplitude"}
      [] at = "dq" -> KeysResolver \cup KeysForces \cup {"torque_amplitude", "T"}
      [] at = "repack" -> KeysResolver \cup KeysForces \cup {"torque_amplitude", "T", "dq"}
      [] OTHER -> {}

\* the entries the step at pc reads
ReadAt(at) ==
    CASE at = "forces" -> {"angle_of_attack", "unit_vectors"}
      [] at = "torques" -> {"angle_of_attack", "unit_vectors", "w"}
      [] at = "wobble" -> {"torque_amplitude"}
      [] at = "repack" -> {"Acc", "dq", "T"}
      [] OTHER -> {}

Running == pc \in {"forces", "torques", "wobble", "dq", "repack"}

\* C8: within an evaluation the steps run in the order resolver, forces,
\* torques (wobble/damping and quaternion kinematics inside it), repack:
\* at each step the mapping holds exactly the entries of the steps before
\* it, every one written in this evaluation, and the entries the step reads
\* are among them.
C8_FixedOrder ==
    Running =>
        /\ DOMAIN res = WrittenBefore(pc)
        /\ \A k \in DOMAIN res : res[k].cur
        /\ ReadAt(pc) \subseteq DOMAIN res

\* the orchestrator is about to repack on an instance called before
C8_Witness == pc = "repack" /\ reused

\* C9: for a unit orientation quaternion q, non-zero spin and a non-zero
\* (finite) combined rate w = wobble + (C_y*tau*xhat + C_x*tau*yhat)/(I_zz*dgamma),
\* the quaternion derivative returned is 1/2 * (w, 0) (x) q; it is orthogonal
\* to q and its norm is w_norm / 2.
C9_QuaternionRate ==
    (/\ HasReturned
     /\ Dot4(Quat(coordinates), Quat(coordinates)) = One
     /\ ~ZeroSpin(coordinates)
     /\ VFinite(w)
     /\ w # ZeroVec3) =>
        LET q == Quat(coordinates)
            aoa == res["angle_of_attack"].val
            tau == res["torque_amplitude"].val
            xhat == res["unit_vectors"].val.xhat
            yhat == res["unit_vectors"].val.yhat
            moments == VAdd(VScale(RMul(C_y(model, aoa), tau), xhat),
                            VScale(RMul(C_x(model, aoa, Norm3(velocity), coordinates[13]), tau), yhat))
            dq == res["dq"].val
        IN  /\ w = VAdd(res["w"].val, VDivS(moments, RMul(model.I_zz, coordinates[13])))
            /\ dq = VScale(Half, ComposeQuat(<< w[1], w[2], w[3], Zero >>, q))
            /\ Dot4(dq, q) = Zero
            /\ Dot4(dq, dq) = RDiv(RMul(w_norm, w_norm), Q(4))
            /\ RMul(w_norm, w_norm) = Dot3(w, w)

\* a tilted disc with wobble and aerodynamic moments: w is neither the wobble
\* nor parallel to the vector part of q
C9_Witness ==
    /\ HasReturned
    /\ Quat(coordinates) = Tilted
    /\ VFinite(w)
    /\ w # res["w"].val
    /\ res["w"].val # ZeroVec3
    /\ Cross(w, << coordinates[7], coordinates[8], coordinates[9] >>) # ZeroVec3

TorqueStepsKeep ==
    pc \in {"torques", "wobble", "dq"} =>
        /\ \A k \in DOMAIN res : k \in DOMAIN res' /\ res'[k].val = res[k].val
        /\ (DOMAIN res' \ DOMAIN res) \subseteq {"torque_amplitude", "T", "dq"}
        /\ velocity' = velocity
        /\ ang_velocity' = ang_velocity
        /\ coordinates' = coordinates

\* C10: the steps of compute_torques and compute_wobble_precession leave
\* every entry already in the mapping as it is, add no entry other than
\* torque_amplitude, T and dq, and leave the caller's velocity, angular
\* velocity and state unchanged.
C10_Frame == [][TorqueStepsKeep]_vars

\* compute_torques has returned; the combined rate differs from the wobble
\* vector, which the entry w still holds
C10_Witness ==
    /\ pc = "repack"
    /\ VFinite(w)
    /\ w # res["w"].val
    /\ res["w"].val = MatVec(AsMatrix(rotation), << ang_velocity[1], ang_velocity[2], Zero >>)
    /\ res["w"].val # ZeroVec3

====
